---- MODULE Spec2Model ----
(***************************************************************************)
(* A model of the graph store (src/data_structures/graph.py), of the       *)
(* array-backed binary heaps (src/data_structures/heap.py) and of the      *)
(* graph searches (src/searching).                                         *)
(*                                                                         *)
(* A Python dict is insertion-ordered.  An adjacency row                   *)
(* (self.edges[v], a dict neighbour -> weight) is modelled as the sequence *)
(* of its items in iteration order, each item a record [to, w].  The two   *)
(* outer dicts (self.vertices, self.edges) are modelled as functions on    *)
(* their key sets: the loops over an outer dict (remove_vertex, the        *)
(* directed branch; get_degree) visit every key and their effect does not  *)
(* depend on the order.  The statistics counters operation_count,          *)
(* access_count and modification_count and the logger are not modelled: no *)
(* operation reads them.  A Python list (MinHeap.data) is a sequence;      *)
(* index i of the code is position i + 1 of the sequence.                  *)
(***************************************************************************)
EXTENDS Integers, Sequences, FiniteSets, TLC

VARIABLES directed, vertices, edges, size, edge_count, is_empty, last, nops,
          readers,
          data, heap_size, hlast, drain_items, drain_out

graphVars ==
    <<directed, vertices, edges, size, edge_count, is_empty, last, nops,
      readers>>
heapVars == <<data, heap_size, hlast, drain_items, drain_out>>
vars == <<directed, vertices, edges, size, edge_count, is_empty, last, nops,
          readers,
          data, heap_size, hlast, drain_items, drain_out>>

(***************************************************************************)
(* Bounds of the model.                                                    *)
(***************************************************************************)
\* number of Graph calls in one run
MaxOps == 6
\* edge weights passed to add_edge are 1..MaxWeight
MaxWeight == 2

\* a MinHeap holds at most MaxHeapSize items, each in 1..MaxItem, and
\* build_heap is given at most MaxBuildLen items
MaxHeapSize == 5
MaxItem == 3
MaxBuildLen == 3
\* the lists that are built into a heap and drained have at most MaxDrainLen
\* items
MaxDrainLen == 4
\* the heaps that delete is called on are built from at most MaxDeleteLen
\* items
MaxDeleteLen == 6
\* the graph that concurrent readers work on is built by at most
\* MaxReadBuild calls
MaxReadBuild == 4

\* the vertex keys the caller uses, and the payloads it attaches
VertexIds == {"A", "B", "C"}
Payloads == {"None", "p"}
Weights == 1..MaxWeight

\* Python's None where a number is expected (a weight, a heap item): weights
\* and heap items are positive
None == 0

\* the value of `last` before any call
NoCall == [op |-> "init", u |-> "None", v |-> "None", w |-> 0, ret |-> FALSE]

\* the threads that read one Graph concurrently, and the vertex ids they and
\* the builder of that graph use
Readers == {"r1", "r2"}
ReadIds == {"A", "B"}

\* a reader that is in no call; of `ret`, the field of the call's result type
\* holds what the call returned
NoRead ==
    [pc |-> "idle", op |-> "none", u |-> "None", v |-> "None", i |-> 0,
     neighbors |-> <<>>, ret |-> [list |-> <<>>, bool |-> FALSE, weight |-> 0]]

\* the value of `hlast` before any call
NoHeapCall == [op |-> "init", x |-> 0, y |-> 0, ret |-> 0]

(***************************************************************************)
(* Adjacency rows: insertion-ordered dicts neighbour -> weight.            *)
(***************************************************************************)
\* `key in row`
RowHas(row, key) == \E i \in 1..Len(row) : row[i].to = key

\* row.keys() as a set
RowKeys(row) == {row[i].to : i \in 1..Len(row)}

\* row[key], for a key of the row
RowGet(row, key) == row[CHOOSE i \in 1..Len(row) : row[i].to = key].w

\* row.pop(key), for a key of the row: the other items keep their order
RowPop(row, key) == SelectSeq(row, LAMBDA e : e.to # key)

\* row[key] = w with a new key put first instead of last
RowSet_Prepend(row, key, w) ==
    IF RowHas(row, key)
    THEN [i \in 1..Len(row) |->
             IF row[i].to = key THEN [to |-> key, w |-> w] ELSE row[i]]
    ELSE <<[to |-> key, w |-> w]>> \o row

\* row[key] = w: a new key goes last, an existing key keeps its place
RowSet(row, key, w) ==
    IF RowHas(row, key)
    THEN [i \in 1..Len(row) |->
             IF row[i].to = key THEN [to |-> key, w |-> w] ELSE row[i]]
    ELSE Append(row, [to |-> key, w |-> w])

\* a dict without one of its keys
DictPop(d, key) == [k \in (DOMAIN d) \ {key} |-> d[k]]

(***************************************************************************)
(* Graph.  A graph value g is the record of the fields of a Graph object;  *)
(* every method is an operator from g and the arguments to the record      *)
(* [g, ret] of the object after the call and the value returned.  A method *)
(* whose body is a try-block returns False from its except-clause and      *)
(* keeps whatever it had already written.                                  *)
(***************************************************************************)
Result(g, ret) == [g |-> g, ret |-> ret]

\* Graph.__init__
\* is_empty is the flag DataStructureBase.__init__ sets
GraphInit(d) ==
    [directed |-> d, vertices |-> <<>>, edges |-> <<>>, size |-> 0,
     edge_count |-> 0, is_empty |-> TRUE]

\* add_vertex without its duplicate check: the payload and the row of an
\* existing vertex are overwritten
add_vertex_Overwrite(g, vertex_id, d) ==
    Result([g EXCEPT !.vertices =
                         [k \in DOMAIN g.vertices \cup {vertex_id} |->
                             IF k = vertex_id THEN d ELSE g.vertices[k]],
                     !.edges =
                         [k \in DOMAIN g.edges \cup {vertex_id} |->
                             IF k = vertex_id THEN <<>> ELSE g.edges[k]],
                     !.size = g.size + 1],
           TRUE)

add_vertex(g, vertex_id, d) ==
    IF vertex_id \in DOMAIN g.vertices
    THEN Result(g, FALSE)
    ELSE Result([g EXCEPT !.vertices = vertex_id :> d @@ g.vertices,
                          !.edges = vertex_id :> <<>> @@ g.edges,
                          !.size = g.size + 1],
                TRUE)

\* remove_vertex, the loop of the undirected branch, from item i of the row
\* being iterated.  edges[neighbor] raises KeyError when neighbor has no row,
\* pop raises KeyError when the row of neighbor does not hold vertex_id, and
\* popping a self-loop shrinks the dict being iterated, so that the next
\* step of the iteration raises RuntimeError.
RECURSIVE RemoveVertexUndirectedLoop(_, _, _, _, _)
RemoveVertexUndirectedLoop(E, cnt, vertex_id, row, i) ==
    IF i > Len(row)
    THEN [edges |-> E, edge_count |-> cnt, raised |-> FALSE]
    ELSE LET neighbor == row[i].to
         IN IF neighbor \notin DOMAIN E
            THEN [edges |-> E, edge_count |-> cnt, raised |-> TRUE]
            ELSE IF ~RowHas(E[neighbor], vertex_id)
            THEN [edges |-> E, edge_count |-> cnt, raised |-> TRUE]
            ELSE LET E2 == [E EXCEPT ![neighbor] = RowPop(@, vertex_id)]
                 IN IF neighbor = vertex_id
                    THEN [edges |-> E2, edge_count |-> cnt - 1,
                          raised |-> TRUE]
                    ELSE RemoveVertexUndirectedLoop(E2, cnt - 1, vertex_id,
                                                    row, i + 1)

\* remove_vertex, the directed branch: one decrement per out-edge, then one
\* pop and one decrement per row (the vertex's own row included) holding it
RemoveVertexDirected(E, cnt, vertex_id) ==
    LET holders == {v \in DOMAIN E : RowHas(E[v], vertex_id)}
    IN [edges |-> [v \in DOMAIN E |->
                      IF v \in holders THEN RowPop(E[v], vertex_id)
                      ELSE E[v]],
        edge_count |-> cnt - Len(E[vertex_id]) - Cardinality(holders),
        raised |-> FALSE]

remove_vertex(g, vertex_id) ==
    IF vertex_id \notin DOMAIN g.vertices
    THEN Result(g, FALSE)
    ELSE LET r == IF g.directed
                  THEN RemoveVertexDirected(g.edges, g.edge_count, vertex_id)
                  ELSE RemoveVertexUndirectedLoop(g.edges, g.edge_count,
                                                  vertex_id,
                                                  g.edges[vertex_id], 1)
         IN IF r.raised
            THEN Result([g EXCEPT !.edges = r.edges,
                                  !.edge_count = r.edge_count], FALSE)
            ELSE Result([g EXCEPT !.vertices = DictPop(g.vertices, vertex_id),
                                  !.edges = DictPop(r.edges, vertex_id),
                                  !.edge_count = r.edge_count,
                                  !.size = g.size - 1],
                        TRUE)

\* add_edge storing one direction only, also in an undirected graph
add_edge_NoReverse(g, from_vertex, to_vertex, weight) ==
    IF from_vertex \notin DOMAIN g.vertices \/ to_vertex \notin DOMAIN g.vertices
    THEN Result(g, FALSE)
    ELSE IF RowHas(g.edges[from_vertex], to_vertex)
    THEN Result(g, FALSE)
    ELSE Result([g EXCEPT !.edges = [g.edges EXCEPT ![from_vertex] =
                                        RowSet(@, to_vertex, weight)],
                          !.edge_count = g.edge_count + 1],
                TRUE)

\* add_edge creating the endpoints it does not find
add_edge_AutoCreate(g, from_vertex, to_vertex, weight) ==
    LET ends == {from_vertex, to_vertex}
        V1 == [k \in DOMAIN g.vertices \cup ends |->
                  IF k \in DOMAIN g.vertices THEN g.vertices[k] ELSE "None"]
        E0 == [k \in DOMAIN g.edges \cup ends |->
                  IF k \in DOMAIN g.edges THEN g.edges[k] ELSE <<>>]
    IN IF RowHas(E0[from_vertex], to_vertex)
       THEN Result(g, FALSE)
       ELSE LET E1 == [E0 EXCEPT ![from_vertex] = RowSet(@, to_vertex, weight)]
                g1 == [g EXCEPT !.vertices = V1,
                                !.size = Cardinality(DOMAIN V1)]
            IN IF ~g.directed /\ from_vertex # to_vertex
               THEN Result([g1 EXCEPT !.edges = [E1 EXCEPT ![to_vertex] =
                                                RowSet(@, from_vertex, weight)],
                                      !.edge_count = g.edge_count + 2],
                           TRUE)
               ELSE Result([g1 EXCEPT !.edges = E1,
                                      !.edge_count = g.edge_count + 1],
                           TRUE)

\* add_edge without its duplicate check: an existing edge gets the new weight
add_edge_Overwrite(g, from_vertex, to_vertex, weight) ==
    IF from_vertex \notin DOMAIN g.vertices \/ to_vertex \notin DOMAIN g.vertices
    THEN Result(g, FALSE)
    ELSE LET E1 == [g.edges EXCEPT ![from_vertex] = RowSet(@, to_vertex, weight)]
         IN IF ~g.directed /\ from_vertex # to_vertex
            THEN Result([g EXCEPT !.edges = [E1 EXCEPT ![to_vertex] =
                                                RowSet(@, from_vertex, weight)],
                                  !.edge_count = g.edge_count + 2],
                        TRUE)
            ELSE Result([g EXCEPT !.edges = E1,
                                  !.edge_count = g.edge_count + 1],
                        TRUE)

\* add_edge without `from_vertex != to_vertex`: an undirected self-loop is
\* stored and counted as two entries
add_edge_LoopTwice(g, from_vertex, to_vertex, weight) ==
    IF from_vertex \notin DOMAIN g.vertices \/ to_vertex \notin DOMAIN g.vertices
    THEN Result(g, FALSE)
    ELSE IF RowHas(g.edges[from_vertex], to_vertex)
    THEN Result(g, FALSE)
    ELSE LET E1 == [g.edges EXCEPT ![from_vertex] = RowSet(@, to_vertex, weight)]
         IN IF ~g.directed
            THEN Result([g EXCEPT !.edges = [E1 EXCEPT ![to_vertex] =
                                                RowSet(@, from_vertex, weight)],
                                  !.edge_count = g.edge_count + 2],
                        TRUE)
            ELSE Result([g EXCEPT !.edges = E1,
                                  !.edge_count = g.edge_count + 1],
                        TRUE)

add_edge(g, from_vertex, to_vertex, weight) ==
    IF from_vertex \notin DOMAIN g.vertices \/ to_vertex \notin DOMAIN g.vertices
    THEN Result(g, FALSE)
    ELSE IF RowHas(g.edges[from_vertex], to_vertex)
    THEN Result(g, FALSE)
    ELSE LET E1 == [g.edges EXCEPT ![from_vertex] = RowSet(@, to_vertex, weight)]
         IN IF ~g.directed /\ from_vertex # to_vertex
            THEN Result([g EXCEPT !.edges = [E1 EXCEPT ![to_vertex] =
                                                RowSet(@, from_vertex, weight)],
                                  !.edge_count = g.edge_count + 2],
                        TRUE)
            ELSE Result([g EXCEPT !.edges = E1,
                                  !.edge_count = g.edge_count + 1],
                        TRUE)

\* remove_edge without the `not self.directed` test: the reverse entry is
\* popped in a directed graph too (KeyError, hence False, when there is none)
remove_edge_Symmetric(g, from_vertex, to_vertex) ==
    IF from_vertex \notin DOMAIN g.vertices \/ to_vertex \notin DOMAIN g.vertices
    THEN Result(g, FALSE)
    ELSE IF ~RowHas(g.edges[from_vertex], to_vertex)
    THEN Result(g, FALSE)
    ELSE LET E1 == [g.edges EXCEPT ![from_vertex] = RowPop(@, to_vertex)]
             g1 == [g EXCEPT !.edges = E1, !.edge_count = g.edge_count - 1]
         IN IF from_vertex # to_vertex
            THEN IF ~RowHas(E1[to_vertex], from_vertex)
                 THEN Result(g1, FALSE)
                 ELSE Result([g EXCEPT !.edges = [E1 EXCEPT ![to_vertex] =
                                                     RowPop(@, from_vertex)],
                                       !.edge_count = g.edge_count - 2],
                             TRUE)
            ELSE Result(g1, TRUE)

remove_edge(g, from_vertex, to_vertex) ==
    IF from_vertex \notin DOMAIN g.vertices \/ to_vertex \notin DOMAIN g.vertices
    THEN Result(g, FALSE)
    ELSE IF ~RowHas(g.edges[from_vertex], to_vertex)
    THEN Result(g, FALSE)
    ELSE LET E1 == [g.edges EXCEPT ![from_vertex] = RowPop(@, to_vertex)]
             g1 == [g EXCEPT !.edges = E1, !.edge_count = g.edge_count - 1]
         IN IF ~g.directed /\ from_vertex # to_vertex
            THEN IF ~RowHas(E1[to_vertex], from_vertex)
                 THEN Result(g1, FALSE)
                 ELSE Result([g EXCEPT !.edges = [E1 EXCEPT ![to_vertex] =
                                                     RowPop(@, from_vertex)],
                                       !.edge_count = g.edge_count - 2],
                             TRUE)
            ELSE Result(g1, TRUE)

\* Graph.clear returns nothing
clear(g) ==
    [g EXCEPT !.vertices = <<>>, !.edges = <<>>, !.size = 0, !.edge_count = 0]

has_edge(g, from_vertex, to_vertex) ==
    IF from_vertex \notin DOMAIN g.vertices \/ to_vertex \notin DOMAIN g.vertices
    THEN FALSE
    ELSE RowHas(g.edges[from_vertex], to_vertex)

get_edge_weight(g, from_vertex, to_vertex) ==
    IF has_edge(g, from_vertex, to_vertex)
    THEN RowGet(g.edges[from_vertex], to_vertex)
    ELSE None

\* get_neighbors that gives an unknown id an adjacency row (setdefault)
get_neighbors_SetDefault(g, vertex_id) ==
    IF vertex_id \notin DOMAIN g.vertices
    THEN Result([g EXCEPT !.edges =
                     [k \in DOMAIN g.edges \cup {vertex_id} |->
                         IF k \in DOMAIN g.edges THEN g.edges[k] ELSE <<>>]],
                <<>>)
    ELSE Result(g, [i \in 1..Len(g.edges[vertex_id]) |->
                       <<g.edges[vertex_id][i].to, g.edges[vertex_id][i].w>>])

\* the list of (neighbor_id, weight) tuples, in the iteration order of the row
\* the loop adds 1 for every row (the vertex's own row included) that holds
\* vertex_id
get_degree(g, vertex_id) ==
    IF vertex_id \notin DOMAIN g.vertices
    THEN Result(g, 0)
    ELSE LET degree == Len(g.edges[vertex_id])
         IN IF ~g.directed
            THEN Result(g, degree + Cardinality({v \in DOMAIN g.edges :
                                                   RowHas(g.edges[v], vertex_id)}))
            ELSE Result(g, degree)

get_size(g) == g.size

is_structure_empty(g) == g.is_empty

get_neighbors(g, vertex_id) ==
    IF vertex_id \notin DOMAIN g.vertices
    THEN Result(g, <<>>)
    ELSE Result(g, [i \in 1..Len(g.edges[vertex_id]) |->
                       <<g.edges[vertex_id][i].to, g.edges[vertex_id][i].w>>])

(***************************************************************************)
(* MinHeap.  A heap value h is the record [data, size] of a MinHeap        *)
(* object; the items are integers, compared by < as the code compares      *)
(* them.                                                                   *)
(***************************************************************************)
\* MinHeap.__init__
MinHeapInit == [data |-> <<>>, size |-> 0]

\* data[i], i counted from 0 as in the code
At(d, i) == d[i + 1]

\* data[i], data[j] = data[j], data[i]
Swap(d, i, j) == [d EXCEPT ![i + 1] = d[j + 1], ![j + 1] = d[i + 1]]

RECURSIVE heapify_up(_, _)
heapify_up(d, index) ==
    LET parent == (index - 1) \div 2
    IN IF index > 0 /\ At(d, index) < At(d, parent)
       THEN heapify_up(Swap(d, index, parent), parent)
       ELSE d

RECURSIVE heapify_down(_, _, _)
heapify_down(d, n, index) ==
    LET left_child == 2 * index + 1
        right_child == 2 * index + 2
        s1 == IF left_child < n /\ At(d, left_child) < At(d, index)
              THEN left_child ELSE index
        smallest == IF right_child < n /\ At(d, right_child) < At(d, s1)
                    THEN right_child ELSE s1
    IN IF smallest = index
       THEN d
       ELSE heapify_down(Swap(d, index, smallest), n, smallest)

\* the first index holding item, or -1
IndexOf(d, item) ==
    IF \E i \in 1..Len(d) : d[i] = item
    THEN (CHOOSE i \in 1..Len(d) :
             d[i] = item /\ \A j \in 1..(i - 1) : d[j] # item) - 1
    ELSE -1

insert(h, item) ==
    LET d1 == Append(h.data, item)
    IN Result([data |-> heapify_up(d1, h.size), size |-> h.size + 1], TRUE)

\* delete that moves the last item into the hole and does not sift it down
delete_NoHeapify(h, item) ==
    LET index == IndexOf(h.data, item)
    IN IF index = -1
       THEN Result(h, FALSE)
       ELSE LET d1 == [h.data EXCEPT ![index + 1] = h.data[Len(h.data)]]
            IN Result([data |-> SubSeq(d1, 1, Len(d1) - 1), size |-> h.size - 1],
                      TRUE)

delete(h, item) ==
    LET index == IndexOf(h.data, item)
    IN IF index = -1
       THEN Result(h, FALSE)
       ELSE LET d1 == [h.data EXCEPT ![index + 1] = h.data[Len(h.data)]]
                d2 == SubSeq(d1, 1, Len(d1) - 1)
                n == h.size - 1
            IN IF n > 0
               THEN Result([data |-> heapify_down(d2, n, index), size |-> n],
                           TRUE)
               ELSE Result([data |-> d2, size |-> n], TRUE)

\* extract_min without the is_empty test: the size is decremented even when
\* there is nothing to remove
extract_min_NoEmptyCheck(h) ==
    IF h.size = 0
    THEN Result([h EXCEPT !.size = h.size - 1], None)
    ELSE Result(delete(h, At(h.data, 0)).g, At(h.data, 0))

extract_min(h) ==
    IF h.size = 0
    THEN Result(h, None)
    ELSE Result(delete(h, At(h.data, 0)).g, At(h.data, 0))

peek_min(h) == IF h.size = 0 THEN None ELSE At(h.data, 0)

\* MinHeap.search: the first index holding item, or -1 for None
search(h, item) == IndexOf(h.data, item)

\* update that always sifts down, whatever the new item
update_SiftDownOnly(h, old_item, new_item) ==
    LET index == search(h, old_item)
    IN IF index # -1
       THEN Result([h EXCEPT !.data =
                        heapify_down([h.data EXCEPT ![index + 1] = new_item],
                                     h.size, index)],
                   TRUE)
       ELSE Result(h, FALSE)

\* update that replaces every occurrence of old_item
update_ReplaceAll(h, old_item, new_item) ==
    LET index == search(h, old_item)
    IN IF index # -1
       THEN Result([h EXCEPT !.data =
                        [i \in 1..Len(h.data) |->
                            IF h.data[i] = old_item THEN new_item
                            ELSE h.data[i]]],
                   TRUE)
       ELSE Result(h, FALSE)

update(h, old_item, new_item) ==
    LET index == search(h, old_item)
    IN IF index # -1
       THEN LET d1 == [h.data EXCEPT ![index + 1] = new_item]
            IN IF new_item < old_item
               THEN Result([h EXCEPT !.data = heapify_up(d1, index)], TRUE)
               ELSE Result([h EXCEPT !.data = heapify_down(d1, h.size, index)],
                           TRUE)
       ELSE Result(h, FALSE)

\* build_heap, the loop `for i in range(size // 2 - 1, -1, -1)` from index i
RECURSIVE BuildLoop(_, _, _)
BuildLoop(d, n, i) ==
    IF i < 0 THEN d ELSE BuildLoop(heapify_down(d, n, i), n, i - 1)

\* build_heap whose loop starts one index below the last parent
build_heap_SkipLastParent(h, items) ==
    [data |-> BuildLoop(items, Len(items), Len(items) \div 2 - 2),
     size |-> Len(items)]

build_heap(h, items) ==
    [data |-> BuildLoop(items, Len(items), Len(items) \div 2 - 1),
     size |-> Len(items)]

(***************************************************************************)
(* MaxHeap: the same methods with the comparisons reversed.  Its search,   *)
(* delete's scan and the empty tests do not compare items and are those of *)
(* MinHeap.                                                                *)
(***************************************************************************)
RECURSIVE MaxHeap_heapify_up(_, _)
MaxHeap_heapify_up(d, index) ==
    LET parent == (index - 1) \div 2
    IN IF index > 0 /\ At(d, index) > At(d, parent)
       THEN MaxHeap_heapify_up(Swap(d, index, parent), parent)
       ELSE d

RECURSIVE MaxHeap_heapify_down(_, _, _)
MaxHeap_heapify_down(d, n, index) ==
    LET left_child == 2 * index + 1
        right_child == 2 * index + 2
        l1 == IF left_child < n /\ At(d, left_child) > At(d, index)
              THEN left_child ELSE index
        largest == IF right_child < n /\ At(d, right_child) > At(d, l1)
                   THEN right_child ELSE l1
    IN IF largest = index
       THEN d
       ELSE MaxHeap_heapify_down(Swap(d, index, largest), n, largest)

MaxHeap_insert(h, item) ==
    LET d1 == Append(h.data, item)
    IN Result([data |-> MaxHeap_heapify_up(d1, h.size), size |-> h.size + 1],
              TRUE)

MaxHeap_delete(h, item) ==
    LET index == IndexOf(h.data, item)
    IN IF index = -1
       THEN Result(h, FALSE)
       ELSE LET d1 == [h.data EXCEPT ![index + 1] = h.data[Len(h.data)]]
                d2 == SubSeq(d1, 1, Len(d1) - 1)
                n == h.size - 1
            IN IF n > 0
               THEN Result([data |-> MaxHeap_heapify_down(d2, n, index),
                            size |-> n], TRUE)
               ELSE Result([data |-> d2, size |-> n], TRUE)

extract_max(h) ==
    IF h.size = 0
    THEN Result(h, None)
    ELSE Result(MaxHeap_delete(h, At(h.data, 0)).g, At(h.data, 0))

\* update with MinHeap's choice of direction: up when the new item is smaller
MaxHeap_update_MinDirection(h, old_item, new_item) ==
    LET index == search(h, old_item)
    IN IF index # -1
       THEN LET d1 == [h.data EXCEPT ![index + 1] = new_item]
            IN IF new_item < old_item
               THEN Result([h EXCEPT !.data = MaxHeap_heapify_up(d1, index)],
                           TRUE)
               ELSE Result([h EXCEPT !.data =
                                MaxHeap_heapify_down(d1, h.size, index)], TRUE)
       ELSE Result(h, FALSE)

MaxHeap_update(h, old_item, new_item) ==
    LET index == search(h, old_item)
    IN IF index # -1
       THEN LET d1 == [h.data EXCEPT ![index + 1] = new_item]
            IN IF new_item > old_item
               THEN Result([h EXCEPT !.data = MaxHeap_heapify_up(d1, index)],
                           TRUE)
               ELSE Result([h EXCEPT !.data =
                                MaxHeap_heapify_down(d1, h.size, index)], TRUE)
       ELSE Result(h, FALSE)

RECURSIVE MaxHeap_BuildLoop(_, _, _)
MaxHeap_BuildLoop(d, n, i) ==
    IF i < 0 THEN d
    ELSE MaxHeap_BuildLoop(MaxHeap_heapify_down(d, n, i), n, i - 1)

MaxHeap_build_heap(h, items) ==
    [data |-> MaxHeap_BuildLoop(items, Len(items), Len(items) \div 2 - 1),
     size |-> Len(items)]

(***************************************************************************)
(* The path searches (src/searching).  A result of type Optional[List] is  *)
(* a record: NoPath for None, SomePath(p) for the list p.  The bodies of   *)
(* AStarSearch.search and DepthFirstSearch.find_path are the single        *)
(* statement `pass`: whatever the arguments, the call returns None and     *)
(* touches nothing.                                                        *)
(***************************************************************************)
NoPath == [some |-> FALSE, path |-> <<>>]
SomePath(p) == [some |-> TRUE, path |-> p]

\* the heuristic that estimates 0 for every pair of vertices
ZeroHeuristic == [pair \in VertexIds \X VertexIds |-> 0]

\* a search that answers with the two end points, whatever the graph
AStarSearch_search_EndPoints(g, start_vertex, target_vertex, heuristic_func) ==
    Result(g, SomePath(<<start_vertex, target_vertex>>))

AStarSearch_search(g, start_vertex, target_vertex, heuristic_func) ==
    Result(g, NoPath)

find_path(g, start_vertex, target_vertex) ==
    Result(g, NoPath)

\* DepthFirstSearch.search and BreadthFirstSearch.search (a visiting order),
\* BreadthFirstSearch.find_shortest_path and
\* AStarSearch.search_with_multiple_goals (a dict target -> path, modelled
\* like a list: NoDict for None, SomeDict(m) for the dict m) have the body
\* `pass` too.
NoDict == [some |-> FALSE, map |-> <<>>]
SomeDict(m) == [some |-> TRUE, map |-> m]

DepthFirstSearch_search(g, start_vertex, target_vertex) ==
    Result(g, NoPath)

BreadthFirstSearch_search(g, start_vertex, target_vertex) ==
    Result(g, NoPath)

find_shortest_path(g, start_vertex, target_vertex) ==
    Result(g, NoPath)

search_with_multiple_goals(g, start_vertex, target_vertices, heuristic_func) ==
    Result(g, NoDict)

(***************************************************************************)
(* The execute entry points.  A keyword argument that is not passed is     *)
(* None ("None" here); `not x` is true of None and of the empty string     *)
(* (and of 0, which the model's string keys leave out).  A call either     *)
(* raises ValueError or returns what the method it hands over to returns.  *)
(***************************************************************************)
\* bool(x) for a vertex key or a missing argument
Truthy(x) == x \notin {"None", ""}

RaisedValueError == [raised |-> TRUE, value |-> NoPath]
Returned(value) == [raised |-> FALSE, value |-> value]

\* the heuristic keyword: missing, or a function (always true as a bool)
NoHeuristic == [some |-> FALSE, func |-> <<>>]
SomeHeuristic(f) == [some |-> TRUE, func |-> f]

DepthFirstSearch_execute(g, start_vertex, target_vertex, search_type) ==
    IF ~Truthy(start_vertex)
    THEN Result(g, RaisedValueError)
    ELSE IF search_type = "path" /\ Truthy(target_vertex)
         THEN Result(g, Returned(find_path(g, start_vertex, target_vertex).ret))
         ELSE Result(g, Returned(DepthFirstSearch_search(g, start_vertex,
                                                         target_vertex).ret))

BreadthFirstSearch_execute(g, start_vertex, target_vertex, search_type) ==
    IF ~Truthy(start_vertex)
    THEN Result(g, RaisedValueError)
    ELSE IF search_type = "shortest_path" /\ Truthy(target_vertex)
         THEN Result(g, Returned(find_shortest_path(g, start_vertex,
                                                    target_vertex).ret))
         ELSE Result(g, Returned(BreadthFirstSearch_search(g, start_vertex,
                                                           target_vertex).ret))

AStarSearch_execute(g, start_vertex, target_vertex, heuristic) ==
    IF ~Truthy(start_vertex) \/ ~Truthy(target_vertex)
    THEN Result(g, RaisedValueError)
    ELSE IF ~heuristic.some
         THEN Result(g, RaisedValueError)
         ELSE Result(g, Returned(AStarSearch_search(g, start_vertex,
                                                    target_vertex,
                                                    heuristic.func).ret))

(***************************************************************************)
(* The graph as a state machine: one Graph object and a caller that makes  *)
(* up to MaxOps calls on it.  `last` records the latest call and what it   *)
(* returned.                                                               *)
(***************************************************************************)
Self ==
    [directed |-> directed, vertices |-> vertices, edges |-> edges,
     size |-> size, edge_count |-> edge_count, is_empty |-> is_empty]

Call(op, u, v, w, ret) == [op |-> op, u |-> u, v |-> v, w |-> w, ret |-> ret]

\* the object becomes g, and the call is recorded
Becomes(g, call) ==
    /\ nops' = nops + 1
    /\ vertices' = g.vertices
    /\ edges' = g.edges
    /\ size' = g.size
    /\ edge_count' = g.edge_count
    /\ is_empty' = g.is_empty
    /\ last' = call
    /\ UNCHANGED <<directed, readers>>

AddVertex(id, d) ==
    /\ nops < MaxOps
    /\ LET r == add_vertex(Self, id, d)
       IN Becomes(r.g, Call("add_vertex", id, d, 0, r.ret))
    /\ UNCHANGED heapVars

RemoveVertex(id) ==
    /\ nops < MaxOps
    /\ LET r == remove_vertex(Self, id)
       IN Becomes(r.g, Call("remove_vertex", id, "None", 0, r.ret))
    /\ UNCHANGED heapVars

AddEdge(u, v, w) ==
    /\ nops < MaxOps
    /\ LET r == add_edge(Self, u, v, w)
       IN Becomes(r.g, Call("add_edge", u, v, w, r.ret))
    /\ UNCHANGED heapVars

RemoveEdge(u, v) ==
    /\ nops < MaxOps
    /\ LET r == remove_edge(Self, u, v)
       IN Becomes(r.g, Call("remove_edge", u, v, 0, r.ret))
    /\ UNCHANGED heapVars

GetNeighbors(id) ==
    /\ nops < MaxOps
    /\ LET r == get_neighbors(Self, id)
       IN Becomes(r.g, Call("get_neighbors", id, "None", 0, r.ret))
    /\ UNCHANGED heapVars

Clear ==
    /\ nops < MaxOps
    /\ Becomes(clear(Self), Call("clear", "None", "None", 0, FALSE))
    /\ UNCHANGED heapVars

HeapIdle ==
    /\ data = <<>>
    /\ heap_size = 0
    /\ hlast = NoHeapCall
    /\ drain_items = <<>>
    /\ drain_out = <<>>

GraphIdle ==
    /\ directed = FALSE
    /\ vertices = <<>>
    /\ edges = <<>>
    /\ size = 0
    /\ edge_count = 0
    /\ is_empty = TRUE
    /\ last = NoCall
    /\ nops = 0
    /\ readers = [r \in Readers |-> NoRead]

InitGraph ==
    /\ directed \in BOOLEAN
    /\ vertices = GraphInit(directed).vertices
    /\ edges = GraphInit(directed).edges
    /\ size = GraphInit(directed).size
    /\ edge_count = GraphInit(directed).edge_count
    /\ is_empty = GraphInit(directed).is_empty
    /\ last = NoCall
    /\ nops = 0
    /\ readers = [r \in Readers |-> NoRead]
    /\ HeapIdle

NextGraph ==
    \/ \E id \in VertexIds, d \in Payloads : AddVertex(id, d)
    \/ \E id \in VertexIds : RemoveVertex(id)
    \/ \E u \in VertexIds, v \in VertexIds, w \in Weights : AddEdge(u, v, w)
    \/ \E u \in VertexIds, v \in VertexIds : RemoveEdge(u, v)
    \/ \E id \in VertexIds : GetNeighbors(id)
    \/ Clear

SpecGraph == InitGraph /\ [][NextGraph]_vars

(***************************************************************************)
(* Searching a graph: the caller builds a graph with add_vertex and        *)
(* add_edge and calls AStarSearch.search and DepthFirstSearch.find_path on *)
(* it.                                                                     *)
(***************************************************************************)
AStarSearchCall(start_vertex, target_vertex) ==
    /\ nops < MaxOps
    /\ LET r == AStarSearch_search(Self, start_vertex, target_vertex,
                                   ZeroHeuristic)
       IN Becomes(r.g, Call("search", start_vertex, target_vertex, 0, r.ret))
    /\ UNCHANGED heapVars

FindPathCall(start_vertex, target_vertex) ==
    /\ nops < MaxOps
    /\ LET r == find_path(Self, start_vertex, target_vertex)
       IN Becomes(r.g, Call("find_path", start_vertex, target_vertex, 0, r.ret))
    /\ UNCHANGED heapVars

NextSearch ==
    \/ \E id \in VertexIds : AddVertex(id, "None")
    \/ \E u \in VertexIds, v \in VertexIds, w \in Weights : AddEdge(u, v, w)
    \/ \E u \in VertexIds, v \in VertexIds : AStarSearchCall(u, v)
    \/ \E u \in VertexIds, v \in VertexIds : FindPathCall(u, v)

SpecSearch == InitGraph /\ [][NextSearch]_vars

(***************************************************************************)
(* Traversing a graph: the caller builds a graph with add_vertex and       *)
(* add_edge and calls the two traversals, the shortest-path search and the *)
(* search for several goals on it.                                         *)
(***************************************************************************)
\* the target lists the caller passes: at most two distinct vertex ids
TargetLists ==
    {t \in UNION {[1..n -> VertexIds] : n \in 0..2} :
        \A i \in 1..Len(t) : \A j \in 1..Len(t) : t[i] = t[j] => i = j}

DepthFirstSearchCall(start_vertex) ==
    /\ nops < MaxOps
    /\ LET r == DepthFirstSearch_search(Self, start_vertex, "None")
       IN Becomes(r.g, Call("dfs_search", start_vertex, "None", 0, r.ret))
    /\ UNCHANGED heapVars

BreadthFirstSearchCall(start_vertex) ==
    /\ nops < MaxOps
    /\ LET r == BreadthFirstSearch_search(Self, start_vertex, "None")
       IN Becomes(r.g, Call("bfs_search", start_vertex, "None", 0, r.ret))
    /\ UNCHANGED heapVars

FindShortestPathCall(start_vertex, target_vertex) ==
    /\ nops < MaxOps
    /\ LET r == find_shortest_path(Self, start_vertex, target_vertex)
       IN Becomes(r.g, Call("find_shortest_path", start_vertex, target_vertex,
                            0, r.ret))
    /\ UNCHANGED heapVars

MultipleGoalsCall(start_vertex, target_vertices) ==
    /\ nops < MaxOps
    /\ LET r == search_with_multiple_goals(Self, start_vertex, target_vertices,
                                           ZeroHeuristic)
       IN Becomes(r.g, Call("search_with_multiple_goals", start_vertex,
                            target_vertices, 0, r.ret))
    /\ UNCHANGED heapVars

NextTraverse ==
    \/ \E id \in VertexIds : AddVertex(id, "None")
    \/ \E u \in VertexIds, v \in VertexIds, w \in Weights : AddEdge(u, v, w)
    \/ \E u \in VertexIds : DepthFirstSearchCall(u)
    \/ \E u \in VertexIds : BreadthFirstSearchCall(u)
    \/ \E u \in VertexIds, v \in VertexIds : FindShortestPathCall(u, v)
    \/ \E u \in VertexIds, t \in TargetLists : MultipleGoalsCall(u, t)

SpecTraverse == InitGraph /\ [][NextTraverse]_vars

(***************************************************************************)
(* The entry points on a graph whose keys include the empty string: the    *)
(* caller builds the graph and calls the three execute methods with and    *)
(* without the optional arguments.                                         *)
(***************************************************************************)
\* the vertex keys of this caller, and the arguments it passes
ExecuteKeys == {"A", ""}
ExecuteArgs == ExecuteKeys \cup {"None"}

DepthFirstSearchExecute(start_vertex, target_vertex, search_type) ==
    /\ nops < MaxOps
    /\ LET r == DepthFirstSearch_execute(Self, start_vertex, target_vertex,
                                         search_type)
       IN Becomes(r.g, Call("dfs_execute", start_vertex, target_vertex,
                            search_type, r.ret))
    /\ UNCHANGED heapVars

BreadthFirstSearchExecute(start_vertex, target_vertex, search_type) ==
    /\ nops < MaxOps
    /\ LET r == BreadthFirstSearch_execute(Self, start_vertex, target_vertex,
                                           search_type)
       IN Becomes(r.g, Call("bfs_execute", start_vertex, target_vertex,
                            search_type, r.ret))
    /\ UNCHANGED heapVars

AStarSearchExecute(start_vertex, target_vertex, heuristic) ==
    /\ nops < MaxOps
    /\ LET r == AStarSearch_execute(Self, start_vertex, target_vertex,
                                    heuristic)
       IN Becomes(r.g, Call("astar_execute", start_vertex, target_vertex,
                            heuristic.some, r.ret))
    /\ UNCHANGED heapVars

NextExecute ==
    \/ \E id \in ExecuteKeys : AddVertex(id, "None")
    \/ \E u \in ExecuteKeys, v \in ExecuteKeys : AddEdge(u, v, 1)
    \/ \E u \in ExecuteArgs, v \in ExecuteArgs,
          t \in {"traversal", "path"} : DepthFirstSearchExecute(u, v, t)
    \/ \E u \in ExecuteArgs, v \in ExecuteArgs,
          t \in {"traversal", "shortest_path"} :
           BreadthFirstSearchExecute(u, v, t)
    \/ \E u \in ExecuteArgs, v \in ExecuteArgs,
          h \in {NoHeuristic, SomeHeuristic(ZeroHeuristic)} :
           AStarSearchExecute(u, v, h)

SpecExecute == InitGraph /\ [][NextExecute]_vars

(***************************************************************************)
(* Asking for degrees: the caller builds a graph with add_vertex, add_edge *)
(* and remove_edge and calls get_degree on it.                             *)
(***************************************************************************)
GetDegree(id) ==
    /\ nops < MaxOps
    /\ LET r == get_degree(Self, id)
       IN Becomes(r.g, Call("get_degree", id, "None", 0, r.ret))
    /\ UNCHANGED heapVars

NextDegree ==
    \/ \E id \in VertexIds : AddVertex(id, "None")
    \/ \E u \in VertexIds, v \in VertexIds, w \in Weights : AddEdge(u, v, w)
    \/ \E u \in VertexIds, v \in VertexIds : RemoveEdge(u, v)
    \/ \E id \in VertexIds : GetDegree(id)

SpecDegree == InitGraph /\ [][NextDegree]_vars

(***************************************************************************)
(* Concurrent readers: a graph is built by add_vertex and add_edge calls,  *)
(* and the threads of Readers call get_neighbors, has_edge and             *)
(* get_edge_weight on it.  A call of a reader is a sequence of steps, one  *)
(* per access to the shared dicts, and the steps of different readers      *)
(* interleave.  No add_* call runs while a read is in progress.            *)
(***************************************************************************)
\* the fields of the Graph object that a reader step leaves alone
graphFields ==
    <<directed, vertices, edges, size, edge_count, is_empty, last, nops>>

NoReadInProgress == \A r \in Readers : readers[r].pc \in {"idle", "done"}

\* the reader returns from its call: a list, a bool, or a weight or None
ReturnList(r, l) ==
    readers' = [readers EXCEPT ![r].pc = "done", ![r].ret.list = l]

ReturnBool(r, b) ==
    readers' = [readers EXCEPT ![r].pc = "done", ![r].ret.bool = b]

ReturnWeight(r, w) ==
    readers' = [readers EXCEPT ![r].pc = "done", ![r].ret.weight = w]

BuildVertex(id) ==
    /\ nops < MaxReadBuild
    /\ NoReadInProgress
    /\ AddVertex(id, "None")

BuildEdge(u, v, w) ==
    /\ nops < MaxReadBuild
    /\ NoReadInProgress
    /\ AddEdge(u, v, w)

\* reader r enters op(u, v); get_edge_weight begins with its has_edge call
StartRead(r, op, u, v) ==
    /\ readers[r].pc \in {"idle", "done"}
    /\ readers' = [readers EXCEPT ![r] =
                       [NoRead EXCEPT !.op = op, !.u = u, !.v = v,
                                      !.pc = IF op = "get_neighbors"
                                             THEN "gn_check" ELSE "he_check"]]
    /\ UNCHANGED graphFields
    /\ UNCHANGED heapVars

\* get_neighbors: `if vertex_id not in self.vertices: return []`
GetNeighborsCheck(r) ==
    /\ readers[r].pc = "gn_check"
    /\ IF readers[r].u \notin DOMAIN vertices
       THEN ReturnList(r, <<>>)
       ELSE readers' = [readers EXCEPT ![r].pc = "gn_loop"]
    /\ UNCHANGED graphFields
    /\ UNCHANGED heapVars

\* a loop that takes each item out of the row it reports
GetNeighborsLoop_Pop(r) ==
    /\ readers[r].pc = "gn_loop"
    /\ LET row == edges[readers[r].u]
       IN IF Len(row) > 0
          THEN /\ readers' = [readers EXCEPT ![r].neighbors =
                                 Append(@, <<row[1].to, row[1].w>>)]
               /\ edges' = [edges EXCEPT ![readers[r].u] = Tail(row)]
          ELSE /\ ReturnList(r, readers[r].neighbors)
               /\ UNCHANGED edges
    /\ UNCHANGED <<directed, vertices, size, edge_count, is_empty, last, nops>>
    /\ UNCHANGED heapVars

\* get_neighbors: one turn of `for neighbor_id, weight in ...items()`, or
\* the return when the row is exhausted
GetNeighborsLoop(r) ==
    /\ readers[r].pc = "gn_loop"
    /\ LET row == edges[readers[r].u]
           i == readers[r].i
       IN IF i < Len(row)
          THEN readers' = [readers EXCEPT ![r].i = i + 1,
                                          ![r].neighbors =
                                              Append(@, <<row[i + 1].to,
                                                          row[i + 1].w>>)]
          ELSE ReturnList(r, readers[r].neighbors)
    /\ UNCHANGED graphFields
    /\ UNCHANGED heapVars

\* has_edge: the two membership tests in self.vertices; get_edge_weight
\* returns None when has_edge returns False
HasEdgeCheck(r) ==
    /\ readers[r].pc = "he_check"
    /\ IF readers[r].u \notin DOMAIN vertices
          \/ readers[r].v \notin DOMAIN vertices
       THEN IF readers[r].op = "has_edge"
            THEN ReturnBool(r, FALSE)
            ELSE ReturnWeight(r, None)
       ELSE readers' = [readers EXCEPT ![r].pc = "he_lookup"]
    /\ UNCHANGED graphFields
    /\ UNCHANGED heapVars

\* has_edge: `return to_vertex in self.edges[from_vertex]`
HasEdgeLookup(r) ==
    /\ readers[r].pc = "he_lookup"
    /\ LET found == RowHas(edges[readers[r].u], readers[r].v)
       IN IF readers[r].op = "has_edge"
          THEN ReturnBool(r, found)
          ELSE IF found
               THEN readers' = [readers EXCEPT ![r].pc = "gw_read"]
               ELSE ReturnWeight(r, None)
    /\ UNCHANGED graphFields
    /\ UNCHANGED heapVars

\* get_edge_weight: `return self.edges[from_vertex][to_vertex]`
GetEdgeWeightRead(r) ==
    /\ readers[r].pc = "gw_read"
    /\ ReturnWeight(r, RowGet(edges[readers[r].u], readers[r].v))
    /\ UNCHANGED graphFields
    /\ UNCHANGED heapVars

NextReaders ==
    \/ \E id \in ReadIds : BuildVertex(id)
    \/ \E u \in ReadIds, v \in ReadIds, w \in Weights : BuildEdge(u, v, w)
    \/ \E r \in Readers, u \in ReadIds, v \in ReadIds,
          op \in {"has_edge", "get_edge_weight"} : StartRead(r, op, u, v)
    \/ \E r \in Readers, u \in ReadIds : StartRead(r, "get_neighbors", u, "None")
    \/ \E r \in Readers : GetNeighborsCheck(r)
    \/ \E r \in Readers : GetNeighborsLoop(r)
    \/ \E r \in Readers : HasEdgeCheck(r)
    \/ \E r \in Readers : HasEdgeLookup(r)
    \/ \E r \in Readers : GetEdgeWeightRead(r)

SpecReaders == InitGraph /\ [][NextReaders]_vars

(***************************************************************************)
(* The heap as a state machine: one MinHeap object and a caller.  `hlast`  *)
(* records the latest call and what it returned (build_heap returns        *)
(* nothing; its record holds the number of items given).                   *)
(***************************************************************************)
HeapSelf == [data |-> data, size |-> heap_size]

Items == 1..MaxItem

\* the lists of at most n items
RECURSIVE ItemLists(_)
ItemLists(n) ==
    IF n = 0 THEN {<<>>}
    ELSE LET shorter == ItemLists(n - 1)
         IN shorter \cup {Append(l, x) : l \in {m \in shorter : Len(m) = n - 1},
                                         x \in Items}

HeapCall(op, x, y, ret) == [op |-> op, x |-> x, y |-> y, ret |-> ret]

HeapBecomes(h, call) ==
    /\ data' = h.data
    /\ heap_size' = h.size
    /\ hlast' = call
    /\ UNCHANGED <<drain_items, drain_out>>

Insert(item) ==
    /\ heap_size < MaxHeapSize
    /\ LET r == insert(HeapSelf, item)
       IN HeapBecomes(r.g, HeapCall("insert", item, 0, r.ret))
    /\ UNCHANGED graphVars

ExtractMin ==
    /\ LET r == extract_min(HeapSelf)
       IN HeapBecomes(r.g, HeapCall("extract_min", 0, 0, r.ret))
    /\ UNCHANGED graphVars

PeekMin ==
    /\ HeapBecomes(HeapSelf, HeapCall("peek_min", 0, 0, peek_min(HeapSelf)))
    /\ UNCHANGED graphVars

Update(old_item, new_item) ==
    /\ LET r == update(HeapSelf, old_item, new_item)
       IN HeapBecomes(r.g, HeapCall("update", old_item, new_item, r.ret))
    /\ UNCHANGED graphVars

BuildHeap(items) ==
    /\ HeapBecomes(build_heap(HeapSelf, items),
                   HeapCall("build_heap", Len(items), 0, 0))
    /\ UNCHANGED graphVars

InitHeap ==
    /\ data = MinHeapInit.data
    /\ heap_size = MinHeapInit.size
    /\ hlast = NoHeapCall
    /\ drain_items = <<>>
    /\ drain_out = <<>>
    /\ GraphIdle

NextHeap ==
    \/ \E item \in Items : Insert(item)
    \/ ExtractMin
    \/ PeekMin
    \/ \E old_item \in Items, new_item \in Items : Update(old_item, new_item)
    \/ \E items \in ItemLists(MaxBuildLen) : BuildHeap(items)

SpecHeap == InitHeap /\ [][NextHeap]_vars

(***************************************************************************)
(* The max-heap as a state machine: one MaxHeap object and a caller; the   *)
(* object's fields are `data` and `heap_size` again.                       *)
(***************************************************************************)
MaxHeap_Insert(item) ==
    /\ heap_size < MaxHeapSize
    /\ LET r == MaxHeap_insert(HeapSelf, item)
       IN HeapBecomes(r.g, HeapCall("insert", item, 0, r.ret))
    /\ UNCHANGED graphVars

ExtractMax ==
    /\ LET r == extract_max(HeapSelf)
       IN HeapBecomes(r.g, HeapCall("extract_max", 0, 0, r.ret))
    /\ UNCHANGED graphVars

MaxHeap_Update(old_item, new_item) ==
    /\ LET r == MaxHeap_update(HeapSelf, old_item, new_item)
       IN HeapBecomes(r.g, HeapCall("update", old_item, new_item, r.ret))
    /\ UNCHANGED graphVars

MaxHeap_BuildHeap(items) ==
    /\ HeapBecomes(MaxHeap_build_heap(HeapSelf, items),
                   HeapCall("build_heap", Len(items), 0, 0))
    /\ UNCHANGED graphVars

NextMaxHeap ==
    \/ \E item \in Items : MaxHeap_Insert(item)
    \/ ExtractMax
    \/ \E old_item \in Items, new_item \in Items :
           MaxHeap_Update(old_item, new_item)
    \/ \E items \in ItemLists(MaxBuildLen) : MaxHeap_BuildHeap(items)

SpecMaxHeap == InitHeap /\ [][NextMaxHeap]_vars

(***************************************************************************)
(* Deleting from a heap: the caller builds a MinHeap with build_heap and   *)
(* calls delete on it.                                                     *)
(***************************************************************************)
Delete(item) ==
    /\ LET r == delete(HeapSelf, item)
       IN HeapBecomes(r.g, HeapCall("delete", item, 0, r.ret))
    /\ UNCHANGED graphVars

NextDelete ==
    \/ \E items \in ItemLists(MaxDeleteLen) : BuildHeap(items)
    \/ \E item \in Items : Delete(item)

SpecDelete == InitHeap /\ [][NextDelete]_vars

(***************************************************************************)
(* Heap sort by hand: a caller gives the list drain_items to build_heap on *)
(* a new MinHeap and then calls extract_min len(drain_items) times,        *)
(* collecting what the calls return in drain_out.                          *)
(***************************************************************************)
\* the lists the caller starts from: every list of at most MaxDrainLen items
\* and the list of the documented example
DrainInputs == ItemLists(MaxDrainLen) \cup {<<5, 3, 8, 1, 9, 2>>}

DrainBuild ==
    /\ hlast = NoHeapCall
    /\ LET h == build_heap(HeapSelf, drain_items)
       IN /\ data' = h.data
          /\ heap_size' = h.size
    /\ hlast' = HeapCall("build_heap", Len(drain_items), 0, 0)
    /\ UNCHANGED <<drain_items, drain_out>>
    /\ UNCHANGED graphVars

DrainExtract ==
    /\ hlast.op \in {"build_heap", "extract_min"}
    /\ Len(drain_out) < Len(drain_items)
    /\ LET r == extract_min(HeapSelf)
       IN /\ data' = r.g.data
          /\ heap_size' = r.g.size
          /\ hlast' = HeapCall("extract_min", 0, 0, r.ret)
          /\ drain_out' = Append(drain_out, r.ret)
    /\ UNCHANGED drain_items
    /\ UNCHANGED graphVars

InitDrain ==
    /\ data = MinHeapInit.data
    /\ heap_size = MinHeapInit.size
    /\ hlast = NoHeapCall
    /\ drain_items \in DrainInputs
    /\ drain_out = <<>>
    /\ GraphIdle

NextDrain ==
    \/ DrainBuild
    \/ DrainExtract

SpecDrain == InitDrain /\ [][NextDrain]_vars

(***************************************************************************)
(* Properties of the heap, under SpecHeap.                                 *)
(***************************************************************************)
\* the first n items of d are in heap order
HeapOrder(d, n) ==
    \A i \in 0..(n - 1) : \A c \in {2 * i + 1, 2 * i + 2} :
        c < n => At(d, i) <= At(d, c)

\* C1: after any sequence of insert, extract_min, update and build_heap
\* calls on a MinHeap that started empty, data[i] <= data[c] for every index
\* i and every child c in {2i+1, 2i+2} with c < size.
C1_MinHeapOrder == HeapOrder(data, heap_size)

\* C1's case: update(3, 1) has carried the new item from a leaf of a heap of
\* four items up to the root
C1_Witness ==
    /\ hlast = HeapCall("update", 3, 1, TRUE)
    /\ data = <<1, 2, 2, 2>>

\* how often x occurs in d
Count(d, x) == Cardinality({i \in 1..Len(d) : d[i] = x})

\* C14: extract_min on a non-empty MinHeap returns an element that is <=
\* every element of the heap and removes exactly one occurrence of it: size
\* decreases by 1 and the remaining multiset is the previous one minus the
\* returned element.
C14_ExtractMinRemovesMinimum ==
    [][(hlast'.op = "extract_min" /\ heap_size > 0) =>
          LET min_value == hlast'.ret
          IN /\ \A i \in 1..Len(data) : min_value <= data[i]
             /\ Count(data, min_value) >= 1
             /\ heap_size' = heap_size - 1
             /\ Len(data') = Len(data) - 1
             /\ \A x \in Items :
                    Count(data', x) =
                        Count(data, x) - (IF x = min_value THEN 1 ELSE 0)]_vars

\* C14's case: extract_min has returned 1 from a heap of four items that
\* held 1 twice, and the other 1 is still there
C14_Witness ==
    /\ hlast = HeapCall("extract_min", 0, 0, 1)
    /\ heap_size = 3
    /\ Count(data, 1) = 1
    /\ Count(data, 3) = 1

\* C15: extract_min and peek_min on an empty MinHeap return None and leave
\* data and size as they were (size stays 0); peek_min on a non-empty heap
\* returns data[0] and leaves data and size as they were.
C15_EmptyHeapSignalling ==
    [][/\ (hlast'.op \in {"extract_min", "peek_min"} /\ heap_size = 0) =>
              /\ hlast'.ret = None
              /\ data' = data
              /\ heap_size' = 0
       /\ (hlast'.op = "peek_min" /\ heap_size > 0) =>
              /\ hlast'.ret = At(data, 0)
              /\ data' = data
              /\ heap_size' = heap_size]_vars

\* C15's case: extract_min has been called on an empty heap (a call that
\* removes the last item returns that item, not None)
C15_Witness ==
    /\ hlast = HeapCall("extract_min", 0, 0, None)
    /\ data = <<>>
    /\ heap_size = 0

\* C17: update(old_item, new_item) returns True and replaces one occurrence
\* of old_item by new_item in the multiset, size unchanged, when old_item
\* occurs in the heap; otherwise it returns False and data and size are
\* unchanged.
C17_UpdateReplacesOne ==
    [][hlast'.op = "update" =>
          LET old_item == hlast'.x
              new_item == hlast'.y
          IN IF Count(data, old_item) >= 1
             THEN /\ hlast'.ret = TRUE
                  /\ heap_size' = heap_size
                  /\ Len(data') = Len(data)
                  /\ \A x \in Items :
                         Count(data', x) =
                             Count(data, x)
                             - (IF x = old_item THEN 1 ELSE 0)
                             + (IF x = new_item THEN 1 ELSE 0)
             ELSE /\ hlast'.ret = FALSE
                  /\ data' = data
                  /\ heap_size' = heap_size]_vars

\* C17's case: update(2, 3) has replaced one 2 and another 2 is still in the
\* heap
C17_Witness ==
    /\ hlast = HeapCall("update", 2, 3, TRUE)
    /\ Count(data, 2) >= 1
    /\ Count(data, 3) >= 1

(***************************************************************************)
(* Properties of delete, under SpecDelete.                                 *)
(***************************************************************************)
\* C26: when delete(item) on a MinHeap in heap order returns True, one
\* occurrence of item is gone and data[i] <= data[c] still holds for every
\* index i and every child c in {2i+1, 2i+2} with c < size.
C26_DeleteKeepsHeapOrder ==
    [][(hlast'.op = "delete" /\ hlast'.ret = TRUE
            /\ HeapOrder(data, heap_size)) =>
          /\ heap_size' = heap_size - 1
          /\ Count(data', hlast'.x) = Count(data, hlast'.x) - 1
          /\ HeapOrder(data', heap_size')]_vars

(***************************************************************************)
(* Properties of the max-heap, under SpecMaxHeap.                          *)
(***************************************************************************)
\* the first n items of d are in max-heap order
MaxHeapOrder(d, n) ==
    \A i \in 0..(n - 1) : \A c \in {2 * i + 1, 2 * i + 2} :
        c < n => At(d, i) >= At(d, c)

\* C18: after any sequence of insert, extract_max, update and build_heap
\* calls on a MaxHeap that started empty, data[i] >= data[c] for every index
\* i and every child c in {2i+1, 2i+2} with c < size, and what extract_max
\* has just returned is >= every element of the heap.
C18_MaxHeapOrder ==
    /\ MaxHeapOrder(data, heap_size)
    /\ Len(data) = heap_size
    /\ (hlast.op = "extract_max" /\ hlast.ret # None) =>
           \A i \in 1..Len(data) : hlast.ret >= data[i]

\* C18's case: update(1, 3) has carried the new item from a leaf of a heap
\* of four items up to the root
C18_Witness ==
    /\ hlast = HeapCall("update", 1, 3, TRUE)
    /\ data = <<3, 2, 2, 2>>

(***************************************************************************)
(* Properties of build_heap followed by a drain, under SpecDrain.          *)
(***************************************************************************)
\* the caller has made its build_heap call and all its extract_min calls
DrainDone ==
    /\ hlast.op \in {"build_heap", "extract_min"}
    /\ Len(drain_out) = Len(drain_items)

\* C16: build_heap(items) followed by len(items) extract_min calls returns
\* the elements of items in non-decreasing order, each as often as it occurs
\* in items, and the heap is empty afterwards.
C16_BuildThenDrainSorts ==
    DrainDone =>
        /\ \A i \in 1..(Len(drain_out) - 1) : drain_out[i] <= drain_out[i + 1]
        /\ \A i \in 1..Len(drain_items) :
               Count(drain_out, drain_items[i]) =
                   Count(drain_items, drain_items[i])
        /\ heap_size = 0
        /\ data = <<>>

\* C16's case: the documented list has been built and drained
C16_Witness ==
    /\ drain_items = <<5, 3, 8, 1, 9, 2>>
    /\ drain_out = <<1, 2, 3, 5, 8, 9>>
    /\ hlast.op = "extract_min"

(***************************************************************************)
(* Properties of the graph, under SpecGraph.                               *)
(***************************************************************************)
\* the sum of len(row) over the rows of the given keys
RECURSIVE SumLen(_, _)
SumLen(E, keys) ==
    IF keys = {} THEN 0
    ELSE LET k == CHOOSE x \in keys : TRUE
         IN Len(E[k]) + SumLen(E, keys \ {k})

\* this step is a call of method op
Called(op) == nops' = nops + 1 /\ last'.op = op

\* the call left the graph as it was
GraphUnchanged == UNCHANGED <<vertices, edges, size, edge_count>>

\* C2: in an undirected graph, after any sequence of add_vertex, add_edge,
\* remove_edge and remove_vertex calls, whenever the row of u holds v with
\* weight w, the row of v holds u with weight w.
C2_UndirectedSymmetry ==
    ~directed =>
        \A u \in DOMAIN edges : \A i \in 1..Len(edges[u]) :
            LET v == edges[u][i].to
            IN /\ v \in DOMAIN edges
               /\ RowHas(edges[v], u)
               /\ RowGet(edges[v], u) = edges[u][i].w

\* C3: remove_vertex(id) on a vertex of the graph returns True, and
\* afterwards id is no vertex key, no row key and no neighbour in any row,
\* while every other row is what it was without its entry for id.
C3_RemoveVertexComplete ==
    [][(Called("remove_vertex") /\ last'.u \in DOMAIN vertices) =>
           /\ last'.ret = TRUE
           /\ last'.u \notin DOMAIN vertices'
           /\ last'.u \notin DOMAIN edges'
           /\ DOMAIN edges' = DOMAIN edges \ {last'.u}
           /\ \A v \in DOMAIN edges' :
                  /\ ~RowHas(edges'[v], last'.u)
                  /\ edges'[v] = RowPop(edges[v], last'.u)]_vars

\* C4: after any sequence of add_vertex, add_edge, remove_edge, remove_vertex
\* and clear calls, every row key is a vertex key and every neighbour stored
\* in a row is a vertex key.
C4_NoDanglingReferences ==
    /\ DOMAIN edges \subseteq DOMAIN vertices
    /\ \A u \in DOMAIN edges : RowKeys(edges[u]) \subseteq DOMAIN vertices

\* C5: after any sequence of add_vertex, add_edge, remove_edge and
\* remove_vertex calls, edge_count is the number of stored adjacency entries.
C5_EdgeCountConsistent == edge_count = SumLen(edges, DOMAIN edges)

\* C6: in an undirected graph, after add_edge(u, v, w) returned True,
\* has_edge(v, u) is true and get_edge_weight(v, u) is w; after remove_edge(u,
\* v) returned True, has_edge(u, v) and has_edge(v, u) are both false.
C6_EdgeOperationsSymmetric ==
    /\ (~directed /\ last.op = "add_edge" /\ last.ret) =>
           /\ has_edge(Self, last.v, last.u)
           /\ get_edge_weight(Self, last.v, last.u) = last.w
    /\ (~directed /\ last.op = "remove_edge" /\ last.ret) =>
           /\ ~has_edge(Self, last.u, last.v)
           /\ ~has_edge(Self, last.v, last.u)

\* C6's case: an undirected edge between two different vertices has been
\* removed by a successful remove_edge, while another edge is still stored
C6_Witness ==
    /\ ~directed
    /\ last.op = "remove_edge"
    /\ last.ret
    /\ last.u # last.v
    /\ \E x \in DOMAIN edges : edges[x] # <<>>

\* C7: add_edge(u, v, w) with u or v not a vertex returns False and leaves
\* vertices, adjacency, size and edge_count as they were.
C7_NoImplicitVertexCreation ==
    [][(/\ Called("add_edge")
        /\ (last'.u \notin DOMAIN vertices \/ last'.v \notin DOMAIN vertices)) =>
           (last'.ret = FALSE /\ GraphUnchanged)]_vars

\* C7's case: add_edge from a vertex of a non-empty graph to an unknown key
\* has been refused
C7_Witness ==
    /\ last.op = "add_edge"
    /\ ~last.ret
    /\ last.u \in DOMAIN vertices
    /\ last.v \notin DOMAIN vertices
    /\ edges[last.u] # <<>>

\* C8: add_edge(u, v, w2) when the row of u already holds v returns False and
\* leaves the stored weight, the reverse entry and edge_count unchanged; in
\* an undirected graph add_edge(v, u, w2) right after a successful
\* add_edge(u, v, w1) is refused in the same way.
C8_DuplicateEdgeRejected ==
    [][/\ (/\ Called("add_edge")
           /\ last'.u \in DOMAIN vertices
           /\ last'.v \in DOMAIN vertices
           /\ RowHas(edges[last'.u], last'.v)) =>
              (last'.ret = FALSE /\ GraphUnchanged)
       /\ (/\ Called("add_edge")
           /\ ~directed
           /\ last.op = "add_edge"
           /\ last.ret
           /\ last'.u = last.v
           /\ last'.v = last.u) =>
              (last'.ret = FALSE /\ GraphUnchanged)]_vars

\* C8's case: in an undirected graph add_edge between two different vertices
\* has been refused, and the edge has kept a weight other than the one given
C8_Witness ==
    /\ ~directed
    /\ last.op = "add_edge"
    /\ ~last.ret
    /\ last.u # last.v
    /\ has_edge(Self, last.u, last.v)
    /\ has_edge(Self, last.v, last.u)
    /\ get_edge_weight(Self, last.u, last.v) # last.w
    /\ get_edge_weight(Self, last.v, last.u) # last.w

\* C9: add_edge(u, u, w) on a vertex u without a self-loop returns True, in a
\* directed and in an undirected graph, appends the one entry u to the row of
\* u and adds 1 to edge_count; remove_edge(u, u) on that self-loop returns
\* True, removes that one entry and subtracts 1 from edge_count.
C9_SelfLoopStoredOnce ==
    [][/\ (/\ Called("add_edge")
           /\ last'.u = last'.v
           /\ last'.u \in DOMAIN vertices
           /\ ~RowHas(edges[last'.u], last'.u)) =>
              /\ last'.ret = TRUE
              /\ edges' = [edges EXCEPT ![last'.u] =
                              Append(@, [to |-> last'.u, w |-> last'.w])]
              /\ edge_count' = edge_count + 1
       /\ (/\ Called("remove_edge")
           /\ last'.u = last'.v
           /\ last'.u \in DOMAIN vertices
           /\ RowHas(edges[last'.u], last'.u)) =>
              /\ last'.ret = TRUE
              /\ edges' = [edges EXCEPT ![last'.u] = RowPop(@, last'.u)]
              /\ Len(edges'[last'.u]) = Len(edges[last'.u]) - 1
              /\ edge_count' = edge_count - 1]_vars

\* C9's case: a self-loop has been removed from a vertex of an undirected
\* graph that has other edges
C9_Witness ==
    /\ ~directed
    /\ last.op = "remove_edge"
    /\ last.ret
    /\ last.u = last.v
    /\ edges[last.u] # <<>>

\* C10: add_vertex(id, payload) on a vertex of the graph returns False and
\* leaves its payload, its row, size and edge_count unchanged; on a new id it
\* returns True and creates the vertex with the payload and an empty row.
C10_AddVertex ==
    [][Called("add_vertex") =>
           IF last'.u \in DOMAIN vertices
           THEN /\ last'.ret = FALSE
                /\ vertices'[last'.u] = vertices[last'.u]
                /\ edges'[last'.u] = edges[last'.u]
                /\ GraphUnchanged
           ELSE /\ last'.ret = TRUE
                /\ DOMAIN vertices' = DOMAIN vertices \cup {last'.u}
                /\ DOMAIN edges' = DOMAIN edges \cup {last'.u}
                /\ vertices'[last'.u] = last'.v
                /\ edges'[last'.u] = <<>>
                /\ \A k \in DOMAIN vertices : vertices'[k] = vertices[k]
                /\ \A k \in DOMAIN edges : edges'[k] = edges[k]
                /\ size' = size + 1
                /\ edge_count' = edge_count]_vars

\* C10's case: add_vertex on an existing vertex with edges, given another
\* payload than the stored one, has been refused
C10_Witness ==
    /\ last.op = "add_vertex"
    /\ ~last.ret
    /\ last.u \in DOMAIN vertices
    /\ vertices[last.u] # last.v
    /\ edges[last.u] # <<>>

\* C11: remove_edge(u, v) with an unknown endpoint or without v in the row of
\* u returns False and changes nothing; in a directed graph remove_edge(u, v)
\* on a stored edge returns True, removes the entry v from the row of u and
\* leaves every other entry (an edge v->u included), in its place.
C11_RemoveEdgeFrame ==
    [][/\ (/\ Called("remove_edge")
           /\ \/ last'.u \notin DOMAIN vertices
              \/ last'.v \notin DOMAIN vertices
              \/ ~RowHas(edges[last'.u], last'.v)) =>
              (last'.ret = FALSE /\ GraphUnchanged)
       /\ (/\ Called("remove_edge")
           /\ directed
           /\ last'.u \in DOMAIN vertices
           /\ last'.v \in DOMAIN vertices
           /\ RowHas(edges[last'.u], last'.v)) =>
              /\ last'.ret = TRUE
              /\ vertices' = vertices
              /\ size' = size
              /\ DOMAIN edges' = DOMAIN edges
              /\ \A x \in DOMAIN edges : x # last'.u => edges'[x] = edges[x]
              /\ ~RowHas(edges'[last'.u], last'.v)
              /\ edges'[last'.u] =
                     SelectSeq(edges[last'.u], LAMBDA e : e.to # last'.v)
              /\ Len(edges'[last'.u]) = Len(edges[last'.u]) - 1]_vars

\* C11's case: in a directed graph the edge u->v has been removed and the
\* separately added edge v->u is still stored
C11_Witness ==
    /\ directed
    /\ last.op = "remove_edge"
    /\ last.ret
    /\ last.u # last.v
    /\ has_edge(Self, last.v, last.u)
    /\ ~has_edge(Self, last.u, last.v)

\* C12: get_neighbors(id) returns the empty list for an id that is not a
\* vertex and the (neighbour, weight) pairs of the row of id, in the row's
\* order, for a vertex; it leaves vertices, adjacency, size and edge_count
\* unchanged.
C12_GetNeighborsPure ==
    [][Called("get_neighbors") =>
           /\ GraphUnchanged
           /\ IF last'.u \in DOMAIN vertices
              THEN /\ Len(last'.ret) = Len(edges[last'.u])
                   /\ \A i \in 1..Len(last'.ret) :
                          /\ last'.ret[i][1] = edges[last'.u][i].to
                          /\ last'.ret[i][2] = edges[last'.u][i].w
              ELSE /\ last'.ret = <<>>
                   /\ last'.u \notin DOMAIN vertices'
                   /\ last'.u \notin DOMAIN edges']_vars

\* C12's case: get_neighbors has been asked for a key that is no vertex of a
\* graph with vertices and edges
C12_Witness ==
    /\ last.op = "get_neighbors"
    /\ last.u \notin DOMAIN vertices
    /\ last.ret = <<>>
    /\ \E x \in DOMAIN edges : edges[x] # <<>>

\* what get_neighbors(x) returns in the current state
NeighborsOf(x) == get_neighbors(Self, x).ret

\* the position of neighbour k in a list of (neighbour, weight) pairs
PosIn(nbrs, k) == CHOOSE i \in 1..Len(nbrs) : nbrs[i][1] = k

\* neighbour k occurs in the list
InList(nbrs, k) == \E i \in 1..Len(nbrs) : nbrs[i][1] = k

\* C13: get_neighbors lists the stored edges of a vertex in the order of
\* their insertion: over every call, the neighbours that stay keep their
\* relative order, a neighbour the call inserts comes after all of them, and
\* a new vertex starts with no neighbours.
C13_NeighbourInsertionOrder ==
    [][\A x \in VertexIds :
           LET old == NeighborsOf(x)
               new == NeighborsOf(x)'
           IN IF x \in DOMAIN vertices
              THEN \A i \in 1..Len(new) : \A j \in 1..Len(new) :
                       (i < j /\ InList(old, new[j][1])) =>
                           /\ InList(old, new[i][1])
                           /\ PosIn(old, new[i][1]) < PosIn(old, new[j][1])
              ELSE new = <<>>]_vars

\* C13's case: in an undirected graph add_edge(u, v) has put the reverse
\* entry last in a row of v that already had an entry, and u last in its own
C13_Witness ==
    /\ ~directed
    /\ last.op = "add_edge"
    /\ last.ret
    /\ last.u # last.v
    /\ Len(NeighborsOf(last.v)) >= 2
    /\ NeighborsOf(last.v)[Len(NeighborsOf(last.v))][1] = last.u
    /\ Len(NeighborsOf(last.u)) >= 2
    /\ NeighborsOf(last.u)[Len(NeighborsOf(last.u))][1] = last.v

(***************************************************************************)
(* Properties of the searches, under SpecSearch.                           *)
(***************************************************************************)
\* the lists of distinct vertex ids
SimplePaths ==
    {p \in UNION {[1..n -> VertexIds] : n \in 1..Cardinality(VertexIds)} :
        \A i \in 1..Len(p) : \A j \in 1..Len(p) : p[i] = p[j] => i = j}

\* p leads from s to t along stored edges between stored vertices
IsPath(p, s, t) ==
    /\ Len(p) >= 1
    /\ p[1] = s
    /\ p[Len(p)] = t
    /\ \A i \in 1..Len(p) : p[i] \in DOMAIN vertices
    /\ \A i \in 1..(Len(p) - 1) :
           p[i] \in DOMAIN edges /\ RowHas(edges[p[i]], p[i + 1])

\* the total weight of the edges of path p
RECURSIVE PathCost(_)
PathCost(p) ==
    IF Len(p) <= 1 THEN 0
    ELSE RowGet(edges[p[1]], p[2]) + PathCost(Tail(p))

\* t can be reached from s
Connected(s, t) == \E p \in SimplePaths : IsPath(p, s, t)

\* C19: whenever target is reachable from start, AStarSearch.search returns
\* a path from start to target whose total edge weight is the minimum over
\* all paths from start to target.
C19_AStarOptimal ==
    [][(Called("search") /\ Connected(last'.u, last'.v)) =>
          /\ last'.ret.some
          /\ IsPath(last'.ret.path, last'.u, last'.v)
          /\ \A q \in SimplePaths :
                 IsPath(q, last'.u, last'.v) =>
                     PathCost(last'.ret.path) <= PathCost(q)]_vars

\* C20: when target cannot be reached from start (an isolated target and a
\* target that is not in the graph included), AStarSearch.search and
\* DepthFirstSearch.find_path return None and leave the graph as it was, and
\* so does the same call made again.
C20_NoPathRepeatable ==
    [][((Called("search") \/ Called("find_path"))
            /\ ~Connected(last'.u, last'.v)) =>
          /\ last'.ret = NoPath
          /\ GraphUnchanged
          /\ (last.op = last'.op /\ last.u = last'.u /\ last.v = last'.v) =>
                 last.ret = NoPath]_vars

\* C20's case: in the directed graph A -> B -> C, find_path(C, A) has
\* answered None
C20_Witness ==
    /\ directed
    /\ last = Call("find_path", "C", "A", 0, NoPath)
    /\ DOMAIN vertices = {"A", "B", "C"}
    /\ RowKeys(edges["A"]) = {"B"}
    /\ RowKeys(edges["B"]) = {"C"}
    /\ RowKeys(edges["C"]) = {}

\* this step is a call of one of the two traversals
CalledTraversal == Called("dfs_search") \/ Called("bfs_search")

\* C21: for a start vertex of the graph, DepthFirstSearch.search and
\* BreadthFirstSearch.search without a target return a list that begins
\* with start and holds every vertex reachable from start exactly once and
\* no other vertex.
C21_TraversalComplete ==
    [][(CalledTraversal /\ last'.u \in DOMAIN vertices) =>
          /\ last'.ret.some
          /\ Len(last'.ret.path) >= 1
          /\ last'.ret.path[1] = last'.u
          /\ \A v \in VertexIds :
                 Count(last'.ret.path, v) =
                     (IF Connected(last'.u, v) THEN 1 ELSE 0)]_vars

\* all stored edges have the same weight
UniformWeights ==
    \A u \in DOMAIN edges : \A x \in DOMAIN edges :
        \A i \in 1..Len(edges[u]) : \A j \in 1..Len(edges[x]) :
            edges[u][i].w = edges[x][j].w

\* C22: in a graph whose edges all have the same weight, for a target
\* reachable from start, find_shortest_path returns a path from start to
\* target with the least number of edges.
C22_BFSPathMinimal ==
    [][(Called("find_shortest_path") /\ UniformWeights
            /\ Connected(last'.u, last'.v)) =>
          /\ last'.ret.some
          /\ IsPath(last'.ret.path, last'.u, last'.v)
          /\ \A q \in SimplePaths :
                 IsPath(q, last'.u, last'.v) =>
                     Len(last'.ret.path) <= Len(q)]_vars

\* C23: for a target reachable from start, DepthFirstSearch.find_path
\* returns a non-empty list from start to target along edges of the graph,
\* and [start] when start = target.
C23_FindPathReturnsPath ==
    [][(Called("find_path") /\ Connected(last'.u, last'.v)) =>
          /\ last'.ret.some
          /\ IsPath(last'.ret.path, last'.u, last'.v)
          /\ (last'.u = last'.v => last'.ret.path = <<last'.u>>)]_vars

\* C24: a traversal from a start vertex of the graph that has a self-loop
\* returns, and the order it returns holds the start vertex exactly once.
C24_TraversalOfCycleVisitsOnce ==
    [][(CalledTraversal /\ last'.u \in DOMAIN vertices
            /\ RowHas(edges[last'.u], last'.u)) =>
          /\ last'.ret.some
          /\ Count(last'.ret.path, last'.u) = 1]_vars

\* the elements of list t
Range(t) == {t[i] : i \in 1..Len(t)}

\* C25: search_with_multiple_goals returns a mapping with exactly one entry
\* per target, the entry of a target being what search(graph, start, target,
\* heuristic) returns.
C25_MultipleGoalsPerTarget ==
    [][Called("search_with_multiple_goals") =>
          /\ last'.ret.some
          /\ DOMAIN last'.ret.map = Range(last'.v)
          /\ \A t \in Range(last'.v) :
                 last'.ret.map[t] =
                     AStarSearch_search(Self, last'.u, t, ZeroHeuristic).ret]_vars

(***************************************************************************)
(* Properties of the execute entry points, under SpecExecute.              *)
(***************************************************************************)
\* C27: a start vertex (and a target vertex) that is a key of the graph is
\* accepted by DepthFirstSearch.execute, BreadthFirstSearch.execute and
\* AStarSearch.execute whatever the key is, the empty string included: the
\* call does not raise for a missing argument.
C27_VertexKeysOpaque ==
    [][/\ ((Called("dfs_execute") \/ Called("bfs_execute"))
              /\ last'.u \in DOMAIN vertices
              /\ last'.v \in DOMAIN vertices \cup {"None"}) =>
              ~last'.ret.raised
       /\ (Called("astar_execute")
              /\ last'.u \in DOMAIN vertices
              /\ last'.v \in DOMAIN vertices
              /\ last'.w = TRUE) =>
              ~last'.ret.raised]_vars

(***************************************************************************)
(* Properties of get_degree, under SpecDegree, and of the emptiness flag,  *)
(* under SpecGraph.                                                        *)
(***************************************************************************)
\* C28: get_degree(v) is 0 for an id that is not a vertex and otherwise the
\* number of entries in the row of v: the out-edges of v in a directed
\* graph, the edges incident to v in an undirected graph (an undirected
\* edge u-v counts 1 for v, not 2).
C28_GetDegree ==
    [][Called("get_degree") =>
          last'.ret = (IF last'.u \in DOMAIN vertices
                       THEN Len(edges[last'.u]) ELSE 0)]_vars

\* C29: after any sequence of add_vertex, remove_vertex and clear calls,
\* is_structure_empty() is true if and only if get_size() = 0.
C29_EmptinessTracksSize ==
    is_structure_empty(Self) <=> (get_size(Self) = 0)

(***************************************************************************)
(* Properties of concurrent reads, under SpecReaders.                      *)
(***************************************************************************)
\* what the call of reader record c returns when it runs alone on the graph
\* as it is
IsolatedResult(c) ==
    [list |-> IF c.op = "get_neighbors"
              THEN get_neighbors(Self, c.u).ret ELSE <<>>,
     bool |-> IF c.op = "has_edge" THEN has_edge(Self, c.u, c.v) ELSE FALSE,
     weight |-> IF c.op = "get_edge_weight"
                THEN get_edge_weight(Self, c.u, c.v) ELSE 0]

\* C30: while readers interleave get_neighbors, has_edge and
\* get_edge_weight calls on one Graph and no add or remove call runs, every
\* call returns what it returns on the unchanged graph in isolation, and no
\* step of a reader changes vertices, edges, size or edge_count.
C30_ConcurrentReadsSafe ==
    [][/\ (readers' # readers) => (GraphUnchanged /\ UNCHANGED is_empty)
       /\ \A r \in Readers :
              (readers'[r].pc = "done" /\ readers[r].pc # "done"
                   /\ readers[r].pc # "idle") =>
                  readers'[r].ret = IsolatedResult(readers'[r])]_vars

\* C30's case: reader r1 has returned a list of two neighbours while reader
\* r2 is in the middle of its loop over the same row
C30_Witness ==
    /\ readers["r1"].pc = "done"
    /\ readers["r1"].op = "get_neighbors"
    /\ Len(readers["r1"].ret.list) = 2
    /\ readers["r2"].pc = "gn_loop"
    /\ readers["r2"].u = readers["r1"].u
    /\ readers["r2"].i = 1

====
